---------------------------- MODULE Spec2Model ----------------------------
(***************************************************************************)
(* A model of src/assign_seats.py: the two-phase seat assignment           *)
(* (assign_seats) and the request loader (load_student_requests).          *)
(*                                                                         *)
(* A Python dict is modelled with its insertion order: the record          *)
(* [keys |-> <<k1, ..., kn>>, val |-> [k \in {k1..kn} |-> value]].         *)
(* The dict seat_assignments is modelled as the set of its (seat, student) *)
(* items, written through DictPut, which overwrites as dict assignment     *)
(* does.  random.choice is a nondeterministic choice of an element.        *)
(* The working list `seats` is built from a set (line 105), so it holds    *)
(* no seat twice and its order is only seen by random.choice: it is held   *)
(* as the set of its elements.                                             *)
(*                                                                         *)
(* Spec is one call of assign_seats, over every input within the bounds;   *)
(* SpecLoad is one call of load_student_requests, whose file is read line  *)
(* by line, each line drawn when it is read.                               *)
(***************************************************************************)
EXTENDS Integers, Sequences, FiniteSets, TLC

\* ------------------------------------------------------------- bounds
\* The largest number of available seats, and the longest preference list.
MaxSeats == 3
MaxPrefs == 2

\* The universes the inputs are drawn from.  Seats and students are opaque
\* identifiers to assign_seats, so the available seats are taken to be the
\* first n seat names and the dict's keys the first k student names, in
\* this order; the preference lists range over every possibility.
SeatNames == <<"1", "2", "3", "4", "5">>
StudentNames == <<"Alice", "Bob", "Carol">>

VARIABLES
    available_seats,    \* assign_seats parameter: the caller's set of seats
    student_requests,   \* assign_seats parameter: the caller's dict student -> list
    seat_assignments,   \* the items of the dict seat_assignments (line 102)
    seats,              \* the working list of unassigned seats (line 105)
    students,           \* the working list of unassigned students (line 106)
    holding,            \* the holding list (line 107)
    student,            \* the loop variable `student` (lines 111, 137)
    h,                  \* position of `for student in holding` (line 137)
    warnings,           \* students named by logger.warning at line 144
    iterations,         \* number of completed iterations of the while loop
    request,            \* load_student_requests: the line `request` (line 37)
    line_no,            \* load_student_requests: lines read so far (i+1, line 37)
    load_log,           \* load_student_requests: the warning logged for `request`
    argv,               \* main: sys.argv
    main_seats,         \* main: what load_available_seats returned (line 163)
    main_requests,      \* main: what load_student_requests returned (line 169)
    main_log,           \* main: the errors and warnings logged, in order
    called,             \* main: assign_seats has been called (line 177)
    printed,            \* main: the lines printed (line 180), as (seat, student)
    pc                  \* assign_seats: "phase1" | "phase2" | "done" | "raised"
                        \* load_student_requests: "open" | "loading" |
                        \*                        "loaded" | "failed"
                        \* main: "main" | "load_seats" | "load_requests" |
                        \*       "call" | "exit"

\* The state of assign_seats alone, and of load_student_requests alone.
engine_vars == <<seat_assignments, seats, students, holding, student, h,
                 warnings, iterations>>
loader_vars == <<request, line_no, load_log>>
main_vars == <<argv, main_seats, main_requests, main_log, called, printed>>

vars == <<available_seats, student_requests, engine_vars, loader_vars,
          main_vars, pc>>

\* ------------------------------------------------------------ helpers
Range(s) == {s[i] : i \in 1..Len(s)}

InList(x, s) == x \in Range(s)

NoDuplicates(s) == \A i, j \in 1..Len(s) : s[i] = s[j] => i = j

Min(a, b) == IF a <= b THEN a ELSE b

\* list.remove(x): removes the first element equal to x
\* (the caller guarantees x is in the list; otherwise Python raises).
RECURSIVE ListRemove(_, _)
ListRemove(s, x) ==
    IF s = <<>> THEN <<>>
    ELSE IF Head(s) = x THEN Tail(s)
    ELSE <<Head(s)>> \o ListRemove(Tail(s), x)

\* d[k] = v on a dict held as its set of items.
DictPut(d, k, v) == {e \in d : e[1] # k} \cup {<<k, v>>}

DictKeys(d) == {e[1] : e \in d}
DictValues(d) == {e[2] : e \in d}

\* student_requests[student]
Prefs(s) == student_requests.val[s]

\* The preference lists the loader can produce for a seat set: ranked,
\* without duplicates, only available seats.
PrefLists(S) ==
    {p \in UNION {[1..n -> S] : n \in 0..MaxPrefs} : NoDuplicates(p)}

\* ------------------------------------------------------- assign_seats
\* The value of a for loop's scan that ended without a break, and of a
\* local variable before its first assignment.
NoSeat == "<no seat>"
Unbound == "<unbound>"
NoWarning == <<>>

\* A scan that takes the last available preference instead of the first.
RECURSIVE LastFit(_, _)
LastFit(prefs, pool) ==
    IF prefs = <<>> THEN NoSeat
    ELSE IF prefs[Len(prefs)] \in pool THEN prefs[Len(prefs)]
    ELSE LastFit(SubSeq(prefs, 1, Len(prefs) - 1), pool)

\* A scan that starts at the second preference (for seat in prefs[1:]).
RECURSIVE FitFromSecond(_, _)
FitFromSecond(prefs, pool) ==
    IF prefs = <<>> THEN NoSeat
    ELSE IF Len(prefs) >= 2 /\ prefs[2] \in pool THEN prefs[2]
    ELSE IF Len(prefs) >= 2 THEN FitFromSecond(Tail(prefs), pool)
    ELSE NoSeat

\* Lines 113-123: the scan of the student's preferences in rank order,
\* stopping at the first seat that is in `seats` (line 117).
RECURSIVE FirstFit(_, _)
FirstFit(prefs, pool) ==
    IF prefs = <<>> THEN NoSeat
    ELSE IF Head(prefs) \in pool THEN Head(prefs)
    ELSE FirstFit(Tail(prefs), pool)

\* while seats and len(students) > 1: the loop ends one student early.
LoopConditionStopsEarly == seats # {} /\ Len(students) > 1

\* while seats: the loop goes on with no student left to choose.
LoopConditionSeatsOnly == seats # {}

\* Line 109: while seats and students
LoopCondition == seats # {} /\ students # <<>>

\* if not seats: the test of line 138 inverted.
SeatsLeftInverted(pool) == pool = {}

\* Line 138: if seats
SeatsLeft(pool) == pool # {}

\* Line 121 left out: the assigned student stays in the list.
RemoveAssignedForgotten(list, s) == list

\* Line 121: students.remove(student), after an assignment.
RemoveAssigned(list, s) == ListRemove(list, s)

\* Line 130 left out: the held student stays in the list.
RemoveHeldForgotten(list, s) == list

\* Line 130: students.remove(student), after the move to holding.
RemoveHeld(list, s) == ListRemove(list, s)

\* Line 129 left out: the student is dropped instead of held.
HoldingAppendForgotten(list, s) == list

\* Line 129: holding.append(student)
HoldingAppend(list, s) == Append(list, s)

\* Lines 133-134 left out: the unselected students are not held.
HoldingExtendForgotten(list, rest) == list

\* Line 134: holding += students
HoldingExtend(list, rest) == list \o rest

\* The holding list walked from its end (for student in reversed(holding)).
HeldAtReversed(list, k) == list[Len(list) + 1 - k]

\* Line 137: the k-th student of `for student in holding`.
HeldAt(list, k) == list[k]

\* seats = available_seats, no copy: the removal reaches the caller's set.
CallerSeatsAliased(caller_seats, seat) == caller_seats \ {seat}

\* What a removal from the working list `seats` leaves in the caller's
\* set: assign_seats works on a copy (line 105,
\* list(available_seats.copy())), so the argument is as it was.
CallerSeatsAfterRemove(caller_seats, seat) == caller_seats

\* Python's None, and a value that is not None.
None == [is_none |-> TRUE]
Some(v) == [is_none |-> FALSE, value |-> v]

\* main is not running: a function is called on its own.
MainIdle ==
    /\ argv = <<>>
    /\ main_seats = None
    /\ main_requests = None
    /\ main_log = <<>>
    /\ called = FALSE
    /\ printed = <<>>

Init ==
    /\ \E n \in 0..MaxSeats : available_seats = {SeatNames[i] : i \in 1..n}
    /\ \E k \in 0..Len(StudentNames) :
         \E val \in [{StudentNames[i] : i \in 1..k} -> PrefLists(available_seats)] :
            student_requests = [keys |-> SubSeq(StudentNames, 1, k), val |-> val]
    /\ seat_assignments = {}
    /\ seats = available_seats
    /\ students = student_requests.keys
    /\ holding = <<>>
    /\ student = Unbound
    /\ h = 0
    /\ warnings = <<>>
    /\ iterations = 0
    /\ request = Unbound
    /\ line_no = 0
    /\ load_log = NoWarning
    /\ MainIdle
    /\ pc = "phase1"

\* One iteration of the while loop, lines 109-130.
Phase1Step ==
    /\ pc = "phase1"
    /\ LoopCondition
    /\ IF students = <<>>
       THEN \* line 111: random.choice of an empty list raises IndexError
            /\ pc' = "raised"
            /\ UNCHANGED <<available_seats, seat_assignments, seats, students,
                           holding, student, iterations>>
       ELSE \E s \in Range(students) :     \* line 111: random.choice(students)
            LET seat == FirstFit(Prefs(s), seats)
                found == seat # NoSeat
                students1 == IF found THEN RemoveAssigned(students, s) ELSE students
            IN  /\ student' = s
                /\ seat_assignments' =
                       IF found THEN DictPut(seat_assignments, seat, s)
                       ELSE seat_assignments
                /\ seats' = IF found THEN seats \ {seat} ELSE seats
                /\ available_seats' =
                       IF found THEN CallerSeatsAfterRemove(available_seats, seat)
                       ELSE available_seats
                \* lines 127-130: still in the list of students -> holding
                /\ IF InList(s, students1)
                   THEN /\ holding' = HoldingAppend(holding, s)
                        /\ students' = RemoveHeld(students1, s)
                   ELSE /\ holding' = holding
                        /\ students' = students1
                /\ iterations' = iterations + 1
                /\ pc' = pc
    /\ UNCHANGED <<student_requests, h, warnings, loader_vars, main_vars>>

\* The loop condition fails; lines 133-134: holding += students.
Phase1Exit ==
    /\ pc = "phase1"
    /\ ~LoopCondition
    /\ holding' = IF students # <<>> THEN HoldingExtend(holding, students)
                   ELSE holding
    /\ h' = 1
    /\ pc' = "phase2"
    /\ UNCHANGED <<available_seats, student_requests, seat_assignments, seats,
                   students, student, warnings, iterations, loader_vars, main_vars>>

\* One iteration of `for student in holding`, lines 137-144.
Phase2Step ==
    /\ pc = "phase2"
    /\ h <= Len(holding)
    /\ student' = HeldAt(holding, h)
    /\ h' = h + 1
    /\ IF SeatsLeft(seats)
       THEN IF seats = {}
            THEN \* line 139: random.choice of an empty list raises IndexError
                 /\ pc' = "raised"
                 /\ UNCHANGED <<seat_assignments, seats, available_seats, warnings>>
            ELSE \E seat \in seats :       \* line 139: random.choice(seats)
                 /\ seat_assignments' = DictPut(seat_assignments, seat, HeldAt(holding, h))
                 /\ seats' = seats \ {seat}
                 /\ available_seats' = CallerSeatsAfterRemove(available_seats, seat)
                 /\ UNCHANGED <<warnings, pc>>
       ELSE \* line 144: logger.warning("No seats available to assign to %s.")
            /\ warnings' = Append(warnings, HeldAt(holding, h))
            /\ UNCHANGED <<seat_assignments, seats, available_seats, pc>>
    /\ UNCHANGED <<student_requests, students, holding, iterations, loader_vars, main_vars>>

\* Line 146: return seat_assignments.
Return ==
    /\ pc = "phase2"
    /\ h > Len(holding)
    /\ pc' = "done"
    /\ UNCHANGED <<available_seats, student_requests, engine_vars, loader_vars, main_vars>>

Next == Phase1Step \/ Phase1Exit \/ Phase2Step \/ Return

Spec == Init /\ [][Next]_vars

\* ---------------------------------------------- load_student_requests
\* A str is modelled as the sequence of its characters, so that split and
\* strip are computed.  The file is read line by line; each line is an
\* input, drawn when it is read.
Whitespace == {" ", "\t", "\n", "\r"}

\* str.strip(): leading and trailing whitespace removed.
RECURSIVE LStrip(_)
LStrip(str) ==
    IF str # <<>> /\ Head(str) \in Whitespace THEN LStrip(Tail(str)) ELSE str

RECURSIVE RStrip(_)
RStrip(str) ==
    IF str # <<>> /\ str[Len(str)] \in Whitespace
    THEN RStrip(SubSeq(str, 1, Len(str) - 1))
    ELSE str

Strip(str) == RStrip(LStrip(str))

\* str.split(","): the fields between the commas; "" splits to [""].
RECURSIVE Split(_)
Split(str) ==
    IF str = <<>> THEN << <<>> >>
    ELSE LET rest == Split(Tail(str))
         IN  IF Head(str) = ","
             THEN << <<>> >> \o rest
             ELSE << <<Head(str)>> \o Head(rest) >> \o Tail(rest)

\* Line 38: pieces = [p.strip() for p in request.split(",")]
Pieces(line) ==
    LET fields == Split(line) IN [k \in 1..Len(fields) |-> Strip(fields[k])]

\* The scan of lines 46-50 without the test `seat not in seen`.
RECURSIVE ScanTokensKeepingRepeats(_, _, _, _)
ScanTokensKeepingRepeats(tokens, seen, kept, available) ==
    IF tokens = <<>> THEN kept
    ELSE IF Head(tokens) \in available
         THEN ScanTokensKeepingRepeats(Tail(tokens), seen \cup {Head(tokens)},
                                       Append(kept, Head(tokens)), available)
         ELSE ScanTokensKeepingRepeats(Tail(tokens), seen, kept, available)

\* Lines 44-50: the scan of pieces[1:] with the set `seen` and the list
\* `seats`; a token is appended if it is not in seen and is available.
RECURSIVE ScanTokens(_, _, _, _)
ScanTokens(tokens, seen, kept, available) ==
    IF tokens = <<>> THEN kept
    ELSE IF Head(tokens) \notin seen /\ Head(tokens) \in available
         THEN ScanTokens(Tail(tokens), seen \cup {Head(tokens)},
                         Append(kept, Head(tokens)), available)
         ELSE ScanTokens(Tail(tokens), seen, kept, available)

\* Line 34: student_requests = {}
EmptyDict == [keys |-> <<>>, val |-> <<>>]

\* The test of line 51 always true: every record is stored.
DictHasNever(d, k) == FALSE

\* Line 51: student not in student_requests
DictHas(d, k) == InList(k, d.keys)

\* Line 52: student_requests[student] = seats
DictSet(d, k, v) ==
    [keys |-> IF DictHas(d, k) THEN d.keys ELSE Append(d.keys, k),
     val  |-> [x \in DOMAIN d.val \cup {k} |-> IF x = k THEN v ELSE d.val[x]]]

\* The lines a file is made of: a name field and up to MaxTokens seat
\* fields, joined by commas, ended by a newline.
MaxTokens == 2
MaxRecords == 2

NameFields == {<<>>, <<"A">>, <<" ", "B">>}
SeatFields == {<<"1">>, <<" ", "2">>, <<"9">>}
LoaderSeatNames == << <<"1">>, <<"2">> >>

RECURSIVE Join(_)
Join(fields) ==
    IF Len(fields) = 1 THEN fields[1]
    ELSE fields[1] \o <<",">> \o Join(Tail(fields))

FileLines ==
    {Join(<<name>> \o tokens) \o <<"\n">> :
        name \in NameFields,
        tokens \in UNION {[1..n -> SeatFields] : n \in 0..MaxTokens}}

InitLoad ==
    /\ \E n \in 0..Len(LoaderSeatNames) :
          available_seats = {LoaderSeatNames[k] : k \in 1..n}
    /\ student_requests = EmptyDict
    /\ request = Unbound
    /\ line_no = 0
    /\ load_log = NoWarning
    /\ MainIdle
    /\ pc = "open"
    /\ seat_assignments = {}
    /\ seats = {}
    /\ students = <<>>
    /\ holding = <<>>
    /\ student = Unbound
    /\ h = 0
    /\ warnings = <<>>
    /\ iterations = 0

\* Line 36: open(file_name, "r") succeeds.
OpenFile ==
    /\ pc = "open"
    /\ pc' = "loading"
    /\ UNCHANGED <<available_seats, student_requests, engine_vars, loader_vars, main_vars>>

\* Lines 56-61: the file is not found, or an I/O error ends the reading:
\* the error is logged and None is returned.
LoadFails ==
    /\ pc \in {"open", "loading"}
    /\ pc' = "failed"
    /\ UNCHANGED <<available_seats, student_requests, engine_vars, loader_vars, main_vars>>

\* Lines 37-54: one record of the file.
ReadRecord ==
    /\ pc = "loading"
    /\ line_no < MaxRecords
    /\ \E line \in FileLines :
         LET pieces == Pieces(line)
             name == pieces[1]
             kept == ScanTokens(Tail(pieces), {}, <<>>, available_seats)
         IN  /\ request' = line
             /\ line_no' = line_no + 1
             /\ IF name = <<>>
                THEN \* lines 40-42: blank name, the record is skipped
                     /\ load_log' = <<"No student name", line_no + 1>>
                     /\ student_requests' = student_requests
                ELSE IF ~DictHas(student_requests, name)
                THEN /\ student_requests' = DictSet(student_requests, name, kept)
                     /\ load_log' = NoWarning
                ELSE \* line 54: a later record of a known student
                     /\ load_log' = <<"Duplicate student", line_no + 1>>
                     /\ student_requests' = student_requests
    /\ UNCHANGED <<available_seats, engine_vars, main_vars, pc>>

\* Line 55: the file is exhausted, return student_requests.
EndOfFile ==
    /\ pc = "loading"
    /\ pc' = "loaded"
    /\ UNCHANGED <<available_seats, student_requests, engine_vars, loader_vars, main_vars>>

NextLoad == OpenFile \/ LoadFails \/ ReadRecord \/ EndOfFile

SpecLoad == InitLoad /\ [][NextLoad]_vars

\* --------------------------------------------------------------- main
\* sys.argv: the program name, then up to two arguments, each possibly "".
ProgramName == "assign_seats.py"
SeatFileArgs == {"", "seats.txt"}
RequestFileArgs == {"", "requests.csv"}

\* sys.argv[k], k counted from 0 as in the source.
Arg(k) == argv[k + 1]

\* Lines 152 and 158: the argument is missing or empty.
NoArg(k) == Len(argv) < k + 1 \/ Arg(k) = ""

\* Lines 82-87: load_available_seats logs the error and returns None.
SeatsOnFailure == None

\* A failed load that returns an empty dict instead of None.
RequestsOnFailureEmpty == Some([keys |-> <<>>, val |-> <<>>])

\* Lines 56-61: load_student_requests logs the error and returns None.
RequestsOnFailure == None

\* The longest preference list of a dict loaded in a run of main.
MainMaxPrefs == 1

\* The sets load_available_seats returns (lines 75-81), and the dicts
\* load_student_requests returns for such a set (lines 34-55): the inputs
\* of Init, with preference lists of at most MainMaxPrefs seats.
LoadableSeats == {{SeatNames[k] : k \in 1..n} : n \in 0..MaxSeats}

LoadableRequests(available) ==
    LET lists == {p \in PrefLists(available) : Len(p) <= MainMaxPrefs}
    IN  UNION {{[keys |-> SubSeq(StudentNames, 1, k), val |-> val] :
                  val \in [{StudentNames[j] : j \in 1..k} -> lists]} :
               k \in 0..Len(StudentNames)}

\* int(seat), line 179: the seat names are the numerals of their positions.
SeatNumber(seat) == CHOOSE k \in 1..Len(SeatNames) : SeatNames[k] = seat

\* Lines 179-180: the assignment's lines in ascending int(seat).
RECURSIVE SortedByNumber(_)
SortedByNumber(items) ==
    IF items = {} THEN <<>>
    ELSE LET first == CHOOSE e \in items :
                         \A f \in items : SeatNumber(e[1]) <= SeatNumber(f[1])
         IN  <<first>> \o SortedByNumber(items \ {first})

InitMain ==
    /\ \E a1 \in SeatFileArgs, a2 \in RequestFileArgs, n \in 0..2 :
          argv = SubSeq(<<ProgramName, a1, a2>>, 1, n + 1)
    /\ main_seats = None
    /\ main_requests = None
    /\ main_log = <<>>
    /\ called = FALSE
    /\ printed = <<>>
    /\ pc = "main"
    /\ available_seats = {}
    /\ student_requests = EmptyDict
    /\ seat_assignments = {}
    /\ seats = {}
    /\ students = <<>>
    /\ holding = <<>>
    /\ student = Unbound
    /\ h = 0
    /\ warnings = <<>>
    /\ iterations = 0
    /\ request = Unbound
    /\ line_no = 0
    /\ load_log = NoWarning

\* Lines 152-161: the two arguments are read, or main returns.
MainCheckArgs ==
    /\ pc = "main"
    /\ IF NoArg(1)
       THEN /\ main_log' = Append(main_log, "No seat file was specified.")
            /\ pc' = "exit"
       ELSE IF NoArg(2)
       THEN /\ main_log' = Append(main_log, "No request file was specified.")
            /\ pc' = "exit"
       ELSE /\ main_log' = main_log
            /\ pc' = "load_seats"
    /\ UNCHANGED <<available_seats, student_requests, engine_vars, loader_vars,
                   argv, main_seats, main_requests, called, printed>>

\* Lines 163-167: load_available_seats returns a set, or logs an error and
\* returns None, and then main returns.
MainLoadSeats ==
    /\ pc = "load_seats"
    /\ \/ \E loaded \in LoadableSeats :
            /\ main_seats' = Some(loaded)
            /\ main_log' = main_log
            /\ pc' = "load_requests"
       \/ /\ main_seats' = SeatsOnFailure
          /\ main_log' = Append(main_log, "The available seats file was not loaded.")
          /\ pc' = IF SeatsOnFailure = None THEN "exit" ELSE "load_requests"
    /\ UNCHANGED <<available_seats, student_requests, engine_vars, loader_vars,
                   argv, main_requests, called, printed>>

\* Lines 169-172: load_student_requests returns a dict, or logs an error
\* and returns None, and then main returns.
MainLoadRequests ==
    /\ pc = "load_requests"
    /\ \/ \E loaded \in LoadableRequests(main_seats.value) :
            /\ main_requests' = Some(loaded)
            /\ main_log' = main_log
            /\ pc' = "call"
       \/ /\ main_requests' = RequestsOnFailure
          /\ main_log' = Append(main_log, "The student requests file was not loaded.")
          /\ pc' = IF RequestsOnFailure = None THEN "exit" ELSE "call"
    /\ UNCHANGED <<available_seats, student_requests, engine_vars, loader_vars,
                   argv, main_seats, called, printed>>

\* Lines 174-177: the warning of too few seats, and the call of
\* assign_seats, which starts with lines 102-107.
MainCallAssign ==
    /\ pc = "call"
    /\ main_log' =
          IF Cardinality(main_seats.value) < Len(main_requests.value.keys)
          THEN Append(main_log, "There are fewer seats than students.")
          ELSE main_log
    /\ called' = TRUE
    /\ available_seats' = main_seats.value
    /\ student_requests' = main_requests.value
    /\ seat_assignments' = {}
    /\ seats' = main_seats.value
    /\ students' = main_requests.value.keys
    /\ holding' = <<>>
    /\ pc' = "phase1"
    /\ UNCHANGED <<student, h, warnings, iterations, loader_vars, argv,
                   main_seats, main_requests, printed>>

\* Lines 179-180: the assignment is printed, sorted by int(seat).
MainPrint ==
    /\ pc = "done"
    /\ printed' = SortedByNumber(seat_assignments)
    /\ pc' = "exit"
    /\ UNCHANGED <<available_seats, student_requests, engine_vars, loader_vars,
                   argv, main_seats, main_requests, main_log, called>>

NextMain ==
    \/ MainCheckArgs \/ MainLoadSeats \/ MainLoadRequests \/ MainCallAssign
    \/ Phase1Step \/ Phase1Exit \/ Phase2Step \/ Return
    \/ MainPrint

SpecMain == InitMain /\ [][NextMain]_vars

\* ----------------------------------------------------------- claims
Done == pc = "done"

NumSeats == Cardinality(available_seats)
NumStudents == Len(student_requests.keys)

\* The seats a student holds in the assignment.
SeatsOf(s) == {e[1] : e \in {x \in seat_assignments : x[2] = s}}

\* The step just taken was an iteration of the while loop that selected
\* student', or an iteration of the holding loop for student'.
Phase1Taken == iterations' = iterations + 1
Phase2Taken == pc = "phase2" /\ h' = h + 1

\* C1: the returned mapping has exactly min(|seats|, |students|) entries,
\* held by as many different students; with more students than seats,
\* exactly |seats| students are assigned and the others are absent.
C1_CapacityExact ==
    Done =>
        /\ Cardinality(seat_assignments) = Min(NumSeats, NumStudents)
        /\ Cardinality(DictValues(seat_assignments)) = Min(NumSeats, NumStudents)
        /\ DictValues(seat_assignments) \subseteq Range(student_requests.keys)
        /\ NumStudents > NumSeats =>
             Cardinality(Range(student_requests.keys)
                           \ DictValues(seat_assignments)) = NumStudents - NumSeats

C1_Witness ==
    /\ Done
    /\ NumSeats = 2
    /\ NumStudents = 3
    /\ Cardinality(seat_assignments) = 2

\* C2: no double-booking, in every reachable state: a seat is the key of
\* at most one entry and a student the value of at most one entry.
C2_NoDoubleBooking ==
    \A e1, e2 \in seat_assignments :
        (e1[1] = e2[1] \/ e1[2] = e2[2]) => e1 = e2

C2_Witness ==
    /\ Done
    /\ Cardinality(seat_assignments) = 3
    /\ \E s \in Range(student_requests.keys) :
          \E t \in Range(student_requests.keys) :
             s # t /\ Prefs(s) # <<>> /\ Prefs(t) # <<>> /\ Prefs(s)[1] = Prefs(t)[1]

\* C3: when a student with a non-empty preference list is considered and
\* the top preference is assigned to nobody, the student gets exactly that
\* seat and no other; entries once made stay.
C3_TopPreferenceHonored ==
    [][ /\ ((Phase1Taken \/ Phase2Taken)
              /\ Prefs(student') # <<>>
              /\ Prefs(student')[1] \notin DictKeys(seat_assignments))
            => /\ <<Prefs(student')[1], student'>> \in seat_assignments'
               /\ \A e \in seat_assignments' :
                     e[2] = student' => e[1] = Prefs(student')[1]
        /\ seat_assignments \subseteq seat_assignments'
      ]_vars

\* A single student with one preferred seat among several received it.
C3_Witness ==
    /\ Done
    /\ student_requests.keys = <<"Alice">>
    /\ Len(Prefs("Alice")) = 1
    /\ NumSeats >= 2
    /\ seat_assignments = {<<Prefs("Alice")[1], "Alice">>}

\* C4: a student who receives a seat in Phase 1 receives the lowest-index
\* entry of the preference list that is in the unassigned pool: no seat
\* ranked higher is unassigned at that moment.
C4_FirstFitByRank ==
    [][ (Phase1Taken /\ seat_assignments' # seat_assignments)
            => \E i \in 1..Len(Prefs(student')) :
                  /\ seat_assignments' \ seat_assignments
                        = {<<Prefs(student')[i], student'>>}
                  /\ Prefs(student')[i] \in seats
                  /\ \A j \in 1..(i - 1) : Prefs(student')[j] \notin seats
      ]_vars

\* A student settled for the second preference, the first being taken.
C4_Witness ==
    /\ pc = "phase1"
    /\ iterations >= 2
    /\ student \in Range(student_requests.keys)
    /\ Len(Prefs(student)) = 2
    /\ <<Prefs(student)[2], student>> \in seat_assignments

\* C5: a student with an empty preference list goes to holding when
\* selected in Phase 1, without a seat; in Phase 2 takes one seat of the
\* pool if the pool is not empty at the student's turn; and with at least
\* as many seats as students ends with exactly one seat.
C5_HoldingFallback ==
    /\ [](Done /\ NumSeats >= NumStudents =>
            \A s \in Range(student_requests.keys) :
               Prefs(s) = <<>> => Cardinality(SeatsOf(s)) = 1)
    /\ [][ /\ (Phase1Taken /\ Prefs(student') = <<>>)
               => /\ seat_assignments' = seat_assignments
                  /\ holding' = Append(holding, student')
           /\ (Phase2Taken /\ Prefs(student') = <<>> /\ seats # {})
               => \E seat \in seats :
                     /\ seat_assignments' = seat_assignments \cup {<<seat, student'>>}
                     /\ seats' = seats \ {seat}
         ]_vars

C5_Witness ==
    /\ Done
    /\ NumSeats = 2
    /\ student_requests.keys = <<"Alice">>
    /\ Prefs("Alice") = <<>>
    /\ Cardinality(seat_assignments) = 1
    /\ holding = <<"Alice">>

\* C6: assign_seats never raises: every state before the return has a
\* next step, none is an exception, and with no seat or no student the
\* returned mapping is empty.
C6_NeverRaises ==
    /\ pc # "raised"
    /\ ~Done => ENABLED Next
    /\ (Done /\ (available_seats = {} \/ student_requests.keys = <<>>))
          => seat_assignments = {}

C6_Witness ==
    /\ Done
    /\ available_seats = {}
    /\ NumStudents = 3
    /\ seat_assignments = {}
    /\ Len(warnings) = 3

\* C7: assign_seats terminates: every step decreases a natural-number
\* variant, no state before the return is stuck, each Phase 1 iteration
\* removes exactly the selected student from the list (assigned or held,
\* never both and never left), and Phase 2 walks holding once, in order.
Variant ==
    CASE pc = "phase1" -> Len(students) + NumStudents + 3
      [] pc = "phase2" -> (Len(holding) + 1 - h) + 1
      [] OTHER -> 0

C7_Terminates ==
    /\ [](Variant >= 0 /\ (~Done => ENABLED Next))
    /\ [][ /\ Variant' < Variant
           /\ Phase1Taken =>
                /\ Len(students') = Len(students) - 1
                /\ ~InList(student', students')
                /\ (student' \in DictValues(seat_assignments'))
                      # (InList(student', holding'))
           /\ Phase2Taken => holding' = holding /\ student' = holding[h]
         ]_vars

C7_Witness ==
    /\ Done
    /\ iterations = 3
    /\ Len(holding) = 2
    /\ h = 3

\* C8: assign_seats leaves its arguments as they were: the caller's seat
\* set and request mapping (keys, lists, order) never change.
C8_InputsUnchanged ==
    [][ /\ available_seats' = available_seats
        /\ student_requests' = student_requests ]_vars

\* The working copies were consumed while the arguments are intact.
C8_Witness ==
    /\ Done
    /\ NumSeats = 3
    /\ seats = {}
    /\ students = <<>>
    /\ NumStudents = 3

\* C9: seats {"1","2","3"}, Alice -> ["2","1"], Bob -> ["1"], Carol -> []:
\* the result has 3 entries, every student is assigned, Alice holds one
\* seat, "2" or "1", and Carol holds the seat Alice and Bob left.
ExampleInput ==
    /\ available_seats = {"1", "2", "3"}
    /\ student_requests.keys = <<"Alice", "Bob", "Carol">>
    /\ Prefs("Alice") = <<"2", "1">>
    /\ Prefs("Bob") = <<"1">>
    /\ Prefs("Carol") = <<>>

C9_EndToEndExample ==
    (Done /\ ExampleInput) =>
        /\ Cardinality(seat_assignments) = 3
        /\ DictValues(seat_assignments) = {"Alice", "Bob", "Carol"}
        /\ Cardinality(SeatsOf("Alice")) = 1
        /\ SeatsOf("Alice") \subseteq {"2", "1"}
        /\ SeatsOf("Carol") =
              available_seats \ (SeatsOf("Alice") \cup SeatsOf("Bob"))

C9_Witness ==
    /\ Done
    /\ ExampleInput
    /\ seat_assignments = {<<"2", "Alice">>, <<"1", "Bob">>, <<"3", "Carol">>}

\* C10: for every record load_student_requests keeps (a name that is not
\* blank and not yet loaded), the stored preference list is the record's
\* seat tokens restricted to the available seats, each at its first
\* occurrence, in the record's order; every loaded list is therefore
\* duplicate-free and within the available seats.
Tokens(line) == Tail(Pieces(line))

\* The positions of the tokens that are available and not a repeat of an
\* earlier token.
FirstValidPositions(tokens, available) ==
    {k \in 1..Len(tokens) :
        /\ tokens[k] \in available
        /\ \A j \in 1..(k - 1) : tokens[j] # tokens[k]}

\* list is the tokens at these positions, in increasing position.
IsFilterOf(list, tokens, available) ==
    LET K == FirstValidPositions(tokens, available)
    IN  /\ Len(list) = Cardinality(K)
        /\ \A k \in K : list[Cardinality({j \in K : j <= k})] = tokens[k]

RecordRead == line_no' = line_no + 1

C10_LoadedListIsFilter ==
    /\ [](\A name \in Range(student_requests.keys) :
             /\ NoDuplicates(student_requests.val[name])
             /\ Range(student_requests.val[name]) \subseteq available_seats)
    /\ [][ (/\ RecordRead
            /\ Pieces(request')[1] # <<>>
            /\ ~InList(Pieces(request')[1], student_requests.keys))
           => /\ student_requests'.keys =
                    Append(student_requests.keys, Pieces(request')[1])
              /\ IsFilterOf(student_requests'.val[Pieces(request')[1]],
                            Tokens(request'), available_seats)
         ]_vars

\* A record that names the same seat twice was kept with the seat once.
C10_Witness ==
    /\ pc = "loaded"
    /\ line_no = 2
    /\ load_log = NoWarning
    /\ available_seats = {<<"1">>, <<"2">>}
    /\ Tokens(request) = << <<"1">>, <<"1">> >>
    /\ student_requests.keys = << <<"A">>, <<"B">> >>
    /\ Pieces(request)[1] = <<"B">>
    /\ student_requests.val[<<"B">>] = << <<"1">> >>

\* C11: load_student_requests keeps the first record of each name: a
\* record with a new, non-blank name adds the name with the list computed
\* from that record; a record with a blank name or a name already loaded
\* changes nothing; no entry ever changes afterwards; and none of these
\* records ends the loading.
C11_FirstRecordKept ==
    /\ [](/\ NoDuplicates(student_requests.keys)
          /\ <<>> \notin Range(student_requests.keys))
    /\ [][ RecordRead =>
             /\ pc' = pc
             /\ \A n \in Range(student_requests.keys) :
                   /\ InList(n, student_requests'.keys)
                   /\ student_requests'.val[n] = student_requests.val[n]
             /\ IF \/ Pieces(request')[1] = <<>>
                   \/ InList(Pieces(request')[1], student_requests.keys)
                THEN student_requests' = student_requests
                ELSE /\ student_requests'.keys =
                           Append(student_requests.keys, Pieces(request')[1])
                     /\ IsFilterOf(student_requests'.val[Pieces(request')[1]],
                                   Tokens(request'), available_seats)
         ]_vars

\* A second record of a loaded name, asking for another seat, was skipped.
C11_Witness ==
    /\ pc = "loaded"
    /\ line_no = 2
    /\ load_log = <<"Duplicate student", 2>>
    /\ available_seats = {<<"1">>, <<"2">>}
    /\ Pieces(request)[1] = <<"A">>
    /\ Tokens(request) = << <<"2">> >>
    /\ student_requests.keys = << <<"A">> >>
    /\ student_requests.val[<<"A">>] = << <<"1">> >>

\* C12: fatal errors abort with no output: when the seat-file or the
\* request-file argument is missing or empty, or a loader has failed
\* (logged its error and returned None), assign_seats is never called and
\* nothing is printed; main ends.
ArgsMissing == NoArg(1) \/ NoArg(2)

LoaderFailed ==
    \/ InList("The available seats file was not loaded.", main_log)
    \/ InList("The student requests file was not loaded.", main_log)

C12_FatalErrorsAbort ==
    /\ (ArgsMissing \/ LoaderFailed) =>
          /\ ~called
          /\ printed = <<>>
          /\ seat_assignments = {}
          /\ pc \in {"main", "exit"}
    /\ pc # "exit" => ENABLED NextMain

\* The request file could not be read after three seats were loaded.
C12_Witness ==
    /\ pc = "exit"
    /\ ~ArgsMissing
    /\ main_seats = Some({"1", "2", "3"})
    /\ main_requests = None
    /\ InList("The student requests file was not loaded.", main_log)
    /\ ~called
    /\ printed = <<>>

\* C13 as stated: when the while loop has ended, it has run exactly
\* |students| iterations.
PhaseOneOver == pc \in {"phase2", "done"}

C13_ExactlyAllIterations == PhaseOneOver => iterations = NumStudents

\* C13, amended: Phase 1 runs one iteration per student selected, at most
\* |students|: when it ends it has run |students| minus the number of
\* students left unselected, who are left only because no seat remains;
\* it runs exactly |students| iterations when |seats| >= |students|.
C13_IterationsBounded ==
    /\ iterations = NumStudents - Len(students)
    /\ iterations <= NumStudents
    /\ PhaseOneOver =>
          /\ students # <<>> => seats = {}
          /\ NumSeats >= NumStudents => iterations = NumStudents

\* The seats ran out after one iteration, two students never selected.
C13_Witness ==
    /\ Done
    /\ NumSeats = 1
    /\ NumStudents = 3
    /\ iterations = 1
    /\ Len(students) = 2

\* C14: Phase 2 serves the holding list in insertion order, one seat of
\* the pool per student while the pool is not empty: the students before
\* position h have each a seat or a warning, those from h on have neither;
\* a warning means the pool is empty; the warnings follow the order of
\* holding; and after a held student without a seat, every later held
\* student is without a seat.
PositionIn(list, x) == CHOOSE k \in 1..Len(list) : list[k] = x

C14_HoldingServedFIFO ==
    /\ \A k \in 1..Len(holding) :
          IF k < h
          THEN (holding[k] \in DictValues(seat_assignments))
                  # InList(holding[k], warnings)
          ELSE /\ holding[k] \notin DictValues(seat_assignments)
               /\ ~InList(holding[k], warnings)
    /\ warnings # <<>> => seats = {}
    /\ Range(warnings) \subseteq Range(holding)
    /\ \A a, b \in 1..Len(warnings) :
          a < b => PositionIn(holding, warnings[a]) < PositionIn(holding, warnings[b])
    /\ \A a, b \in 1..Len(holding) :
          (a < b /\ holding[a] \notin DictValues(seat_assignments))
             => holding[b] \notin DictValues(seat_assignments)

\* Two students were held: the first took the last seat, the second none.
C14_Witness ==
    /\ Done
    /\ Len(holding) = 2
    /\ holding[1] \in DictValues(seat_assignments)
    /\ warnings = <<holding[2]>>

\* C15: the student selected in Phase 1 is appended to holding, without a
\* seat, if and only if no seat of the student's preference list is in the
\* unassigned pool at the selection (an empty list, or every preferred
\* seat taken); otherwise the student is assigned and is not held.
C15_HeldIffNoPreferredSeat ==
    [][ Phase1Taken =>
          IF Range(Prefs(student')) \cap seats = {}
          THEN /\ holding' = Append(holding, student')
               /\ seat_assignments' = seat_assignments
               /\ seats' = seats
          ELSE /\ holding' = holding
               /\ ~InList(student', holding')
               /\ student' \in DictValues(seat_assignments')
               /\ student' \notin DictValues(seat_assignments)
      ]_vars

\* A student with preferences was held because all of them were taken.
C15_Witness ==
    /\ pc = "phase1"
    /\ iterations >= 2
    /\ holding = <<student>>
    /\ Len(Prefs(student)) = 2
    /\ Range(Prefs(student)) \subseteq DictKeys(seat_assignments)
    /\ seats # {}

\* C16: the warning "No seats available" of Phase 2 names every student
\* absent from the returned assignment exactly once and no student present
\* in it; a run logs max(0, |students| - |seats|) such warnings.
C16_UnassignedReportedOnce ==
    /\ NoDuplicates(warnings)
    /\ Range(warnings) \cap DictValues(seat_assignments) = {}
    /\ Done =>
          /\ Range(warnings) =
                Range(student_requests.keys) \ DictValues(seat_assignments)
          /\ Len(warnings) =
                IF NumStudents > NumSeats THEN NumStudents - NumSeats ELSE 0

\* One seat, three students: two warnings.
C16_Witness ==
    /\ Done
    /\ NumSeats = 1
    /\ NumStudents = 3
    /\ Len(warnings) = 2
    /\ Cardinality(seat_assignments) = 1

\* C17: phase ordering: a held student has a seat only when the list of
\* unassigned students is empty; a seat is given outside a Phase 1
\* selection only in Phase 2 and only with that list empty; and once
\* Phase 1 is over no student is selected again.
C17_FallbackAfterPhaseOne ==
    /\ []((Range(holding) \cap DictValues(seat_assignments) # {})
             => (students = <<>> /\ pc # "phase1"))
    /\ [][ /\ (seat_assignments' # seat_assignments /\ ~Phase1Taken)
               => (pc = "phase2" /\ students = <<>> /\ InList(student', holding))
           /\ pc # "phase1" => (pc' # "phase1" /\ iterations' = iterations)
         ]_vars

\* The first held student has taken a fallback seat after three selections.
C17_Witness ==
    /\ pc = "phase2"
    /\ h = 2
    /\ iterations = 3
    /\ students = <<>>
    /\ holding[1] \in DictValues(seat_assignments)

\* C18 as stated: in every reachable state the unassigned students, the
\* held students and the assigned students are pairwise disjoint and,
\* until Phase 2 starts consuming holding, together the input students;
\* the pool and the assigned seats are disjoint and together the input
\* seats; every assigned student is an input student.
Unassigned == Range(students)
Held == Range(holding)
Assigned == DictValues(seat_assignments)
InputStudents == Range(student_requests.keys)

SeatPartition ==
    /\ seats \cap DictKeys(seat_assignments) = {}
    /\ seats \cup DictKeys(seat_assignments) = available_seats
    /\ Assigned \subseteq InputStudents

C18_PoolPartitionAlways ==
    /\ Unassigned \cap Held = {}
    /\ Unassigned \cap Assigned = {}
    /\ Held \cap Assigned = {}
    /\ h <= 1 => Unassigned \cup Held \cup Assigned = InputStudents
    /\ SeatPartition

\* C18, amended: while Phase 1 runs, the three student sets are pairwise
\* disjoint and together the input students.  After the loop the students
\* left unselected are in the list and in holding (line 134 copies them),
\* and a held student who gets a seat stays in holding: the held and the
\* assigned students together are the input students and no unselected
\* student is assigned.  The seat partition holds in every state.
C18_PoolPartition ==
    /\ SeatPartition
    /\ Unassigned \cap Assigned = {}
    /\ pc = "phase1" =>
          /\ Unassigned \cap Held = {}
          /\ Held \cap Assigned = {}
          /\ Unassigned \cup Held \cup Assigned = InputStudents
    /\ PhaseOneOver =>
          /\ Unassigned \subseteq Held
          /\ Held \cup Assigned = InputStudents
          /\ h <= 1 => Held \cap Assigned = {}

\* The seat ran out with two students unselected: both are also held.
C18_Witness ==
    /\ pc = "phase2"
    /\ h = 1
    /\ Len(students) = 2
    /\ holding = students
    /\ Cardinality(seat_assignments) = 1
    /\ seats = {}

\* C19: no preferred seat is wasted: in the returned assignment, every
\* seat that a student ranks above the seat received from the list (every
\* seat of the list, for a student with a seat outside the list or with no
\* seat) is assigned to another student whose own list contains it.
\* The rank of the seat s received from its list, or one past the list.
ReceivedRank(s) ==
    IF \E j \in 1..Len(Prefs(s)) : <<Prefs(s)[j], s>> \in seat_assignments
    THEN CHOOSE j \in 1..Len(Prefs(s)) : <<Prefs(s)[j], s>> \in seat_assignments
    ELSE Len(Prefs(s)) + 1

C19_NoPreferredSeatWasted ==
    Done =>
        \A s \in InputStudents :
           \A j \in 1..(ReceivedRank(s) - 1) :
              \E t \in InputStudents \ {s} :
                 /\ <<Prefs(s)[j], t>> \in seat_assignments
                 /\ InList(Prefs(s)[j], Prefs(t))

\* Carol lost both preferred seats to students who asked for them and
\* holds the third seat.
C19_Witness ==
    /\ Done
    /\ NumSeats = 3
    /\ NumStudents = 3
    /\ Len(Prefs("Carol")) = 2
    /\ SeatsOf("Carol") # {}
    /\ SeatsOf("Carol") \cap Range(Prefs("Carol")) = {}
    /\ Range(Prefs("Carol")) \subseteq DictKeys(seat_assignments)

\* C20: a seat given from holding is never a seat of the receiving
\* student's preference list: a student who holds a preferred seat was
\* never held (the seat came from the Phase 1 scan), and held students
\* have seats only once Phase 1 is over.
C20_FallbackSeatNotPreferred ==
    \A e \in seat_assignments :
       /\ InList(e[1], Prefs(e[2])) => ~InList(e[2], holding)
       /\ InList(e[2], holding) => (PhaseOneOver /\ ~InList(e[1], Prefs(e[2])))

\* A held student with two preferences took a seat that is neither.
C20_Witness ==
    /\ Done
    /\ holding = <<"Bob">>
    /\ Len(Prefs("Bob")) = 2
    /\ SeatsOf("Bob") = {"3"}
    /\ Prefs("Bob") = <<"1", "2">>

=============================================================================
